---------------------------- MODULE Spec2Model ----------------------------
(***************************************************************************)
(* SeasonalTrendDetector (src/src/analysis/seasonal_trends.py) as a state  *)
(* machine: the caller's table, the detector's prepared frame, and the     *)
(* value returned by the last call.                                        *)
(*                                                                         *)
(* Numbers.  pandas computes in float64; the model computes exactly.  A    *)
(* Rat is a fraction [n, d] in lowest terms with d > 0; d = 0 encodes the  *)
(* float specials (n = 0: NaN, n = +-1: +-inf).  A Float is a signed       *)
(* square root of a Rat, [sgn, sq], which is closed under the operations   *)
(* the module applies to a standard deviation (std / mean, (x - mean) /    *)
(* std, abs, comparison).                                                  *)
(***************************************************************************)
EXTENDS Integers, Sequences, FiniteSets, TLC

(***************************************************************************)
(* Bounds of the model and sample values of the inputs.                    *)
(***************************************************************************)
MaxRows == 2
SpanDays == 365
BaseYear == 2023
Years == {BaseYear, BaseYear + 1}
SampleMonths == {1, 12}
SampleDays == {1}
Counts == {0, 1, 2}
DailyCounts == {1, 100}
DailyStartMonths == {1, 7}
\* thresholds as fractions <<numerator, denominator>>; 2/1 is the default 2.0
DefaultThreshold == <<2, 1>>
Thresholds == {<<-1, 1>>, <<0, 1>>, <<3, 4>>, DefaultThreshold}
DefaultPeriod == 12
Periods == {1, 2, DefaultPeriod}

(***************************************************************************)
(* Exact arithmetic.                                                       *)
(***************************************************************************)
Abs(x) == IF x < 0 THEN -x ELSE x

Sgn(x) == IF x < 0 THEN -1 ELSE IF x = 0 THEN 0 ELSE 1

RECURSIVE Gcd(_, _)
Gcd(a, b) == IF b = 0 THEN a ELSE Gcd(b, a % b)

NaN == [n |-> 0, d |-> 0]

IsNaN(q) == q.d = 0 /\ q.n = 0

IsInf(q) == q.d = 0 /\ q.n # 0

IsFinite(q) == q.d > 0

\* the fraction n/d, d # 0, in lowest terms
Rat(n, d) ==
    LET g == Gcd(Abs(n), Abs(d))
    IN  [n |-> (Sgn(d) * n) \div g, d |-> Abs(d) \div g]

FromInt(k) == [n |-> k, d |-> 1]

RatAdd(a, b) ==
    IF ~IsFinite(a) \/ ~IsFinite(b) THEN NaN
    ELSE LET g == Gcd(a.d, b.d)
         IN  Rat(a.n * (b.d \div g) + b.n * (a.d \div g), (a.d \div g) * b.d)

RatNeg(a) == [n |-> -a.n, d |-> a.d]

RatSub(a, b) == RatAdd(a, RatNeg(b))

RatMul(a, b) ==
    IF ~IsFinite(a) \/ ~IsFinite(b) THEN NaN
    ELSE LET g1 == Gcd(Abs(a.n), b.d)
             g2 == Gcd(Abs(b.n), a.d)
         IN  IF a.n = 0 \/ b.n = 0 THEN FromInt(0)
             ELSE [n |-> (a.n \div g1) * (b.n \div g2),
                   d |-> (a.d \div g2) * (b.d \div g1)]

\* float64 division: 0/0 is NaN and x/0 is +-inf; neither raises
RatDiv(a, b) ==
    IF ~IsFinite(a) \/ ~IsFinite(b) THEN NaN
    ELSE IF b.n = 0 THEN [n |-> Sgn(a.n), d |-> 0]
    ELSE RatMul(a, [n |-> Sgn(b.n) * b.d, d |-> Abs(b.n)])

\* float64 comparison: FALSE as soon as one side is NaN
RatLt(a, b) ==
    /\ ~IsNaN(a)
    /\ ~IsNaN(b)
    /\ IF IsInf(a) \/ IsInf(b)
       THEN (IsInf(a) /\ a.n < 0 /\ ~(IsInf(b) /\ b.n < 0))
            \/ (IsInf(b) /\ b.n > 0 /\ ~(IsInf(a) /\ a.n > 0))
       ELSE a.n * b.d < b.n * a.d

RatEq(a, b) == ~IsNaN(a) /\ ~IsNaN(b) /\ a = b

\* a Float: sgn * sqrt(sq)
ToFloat(q) ==
    IF IsNaN(q) THEN [sgn |-> 0, sq |-> NaN]
    ELSE IF IsInf(q) THEN [sgn |-> q.n, sq |-> [n |-> 1, d |-> 0]]
    ELSE [sgn |-> Sgn(q.n), sq |-> RatMul(q, q)]

FloatNaN == [sgn |-> 0, sq |-> NaN]

FloatIsNaN(x) == IsNaN(x.sq)

Sqrt(q) == IF IsNaN(q) THEN FloatNaN ELSE [sgn |-> Sgn(q.n), sq |-> q]

FloatDiv(a, b) ==
    LET q == RatDiv(a.sq, b.sq)
    IN  IF IsNaN(q) THEN FloatNaN
        ELSE IF IsInf(q) THEN [sgn |-> a.sgn, sq |-> q]
        ELSE [sgn |-> a.sgn * b.sgn, sq |-> q]

FloatLt(a, b) ==
    /\ ~FloatIsNaN(a)
    /\ ~FloatIsNaN(b)
    /\ \/ a.sgn < b.sgn
       \/ a.sgn = 1 /\ b.sgn = 1 /\ RatLt(a.sq, b.sq)
       \/ a.sgn = -1 /\ b.sgn = -1 /\ RatLt(b.sq, a.sq)

FloatGt(a, b) == FloatLt(b, a)

FloatAbs(x) == [sgn |-> Abs(x.sgn), sq |-> x.sq]

(***************************************************************************)
(* The Gregorian calendar of pandas' datetime accessors.  A timestamp is   *)
(* <<year, month, day>>, ordered lexicographically.                        *)
(***************************************************************************)
IsLeap(y) == (y % 4 = 0 /\ y % 100 # 0) \/ y % 400 = 0

DaysInMonth(y, m) ==
    IF m = 2 THEN (IF IsLeap(y) THEN 29 ELSE 28)
    ELSE IF m \in {4, 6, 9, 11} THEN 30 ELSE 31

TupleLt(a, b) ==
    \/ a[1] < b[1]
    \/ a[1] = b[1] /\ a[2] < b[2]
    \/ a[1] = b[1] /\ a[2] = b[2] /\ a[3] < b[3]

TupleLe(a, b) == a = b \/ TupleLt(a, b)

RECURSIVE DaysBeforeMonth(_, _)
DaysBeforeMonth(y, m) ==
    IF m = 1 THEN 0 ELSE DaysBeforeMonth(y, m - 1) + DaysInMonth(y, m - 1)

dayofyear(ts) == DaysBeforeMonth(ts[1], ts[2]) + ts[3]

quarter(ts) == ((ts[2] - 1) \div 3) + 1

\* proleptic Gregorian ordinal: 0001-01-01, a Monday, is day 1
Ordinal(ts) ==
    LET p == ts[1] - 1
    IN  365 * p + (p \div 4) - (p \div 100) + (p \div 400) + dayofyear(ts)

\* ISO-8601 weekday, Monday = 1 .. Sunday = 7
IsoWeekday(ts) == ((Ordinal(ts) - 1) % 7) + 1

WeeksInYear(y) ==
    LET jan1 == IsoWeekday(<<y, 1, 1>>)
    IN  IF jan1 = 4 \/ (IsLeap(y) /\ jan1 = 3) THEN 53 ELSE 52

isocalendar_week(ts) ==
    LET w == (dayofyear(ts) - IsoWeekday(ts) + 10) \div 7
    IN  IF w < 1 THEN WeeksInYear(ts[1] - 1)
        ELSE IF w > WeeksInYear(ts[1]) THEN 1
        ELSE w

RECURSIVE AddDays(_, _)
AddDays(ts, k) ==
    LET left == DaysInMonth(ts[1], ts[2]) - ts[3]
    IN  IF k <= left THEN <<ts[1], ts[2], ts[3] + k>>
        ELSE IF ts[2] = 12 THEN AddDays(<<ts[1] + 1, 1, 1>>, k - left - 1)
        ELSE AddDays(<<ts[1], ts[2] + 1, 1>>, k - left - 1)

\* pd.date_range(start, periods = n, freq = 'D')
date_range(start, n) == [i \in 1..n |-> AddDays(start, i - 1)]


(***************************************************************************)
(* Series helpers (pandas reductions over a sequence of Rat).              *)
(***************************************************************************)
\* the sequence with the elements of the function f on 1..n, evaluated once
AsSeq(f) == SubSeq(f, 1, Len(f))

RECURSIVE SumIntsIn(_, _, _)
SumIntsIn(s, lo, hi) ==
    IF lo > hi THEN 0
    ELSE IF lo = hi THEN s[lo]
    ELSE LET mid == (lo + hi) \div 2
         IN  SumIntsIn(s, lo, mid) + SumIntsIn(s, mid + 1, hi)

SumInts(s) == SumIntsIn(s, 1, Len(s))

RECURSIVE SumRatsIn(_, _, _)
SumRatsIn(s, lo, hi) ==
    IF lo > hi THEN FromInt(0)
    ELSE IF lo = hi THEN s[lo]
    ELSE LET mid == (lo + hi) \div 2
         IN  RatAdd(SumRatsIn(s, lo, mid), SumRatsIn(s, mid + 1, hi))

SumRats(s) == SumRatsIn(s, 1, Len(s))

\* the ascending sort of s for the strict order less (less[j, i] says that
\* s[j] sorts before s[i]): s[i] goes to the place counted by the elements
\* that must precede it; tie says whether equal elements keep their order
\* or come out reversed
SortBy(s, less, tie) ==
    LET n == Len(s)
        First(j, i) == IF tie = "kept" THEN j < i ELSE i < j
        Precedes(j, i) == \/ less[j, i]
                          \/ ~less[i, j] /\ First(j, i)
        place == SubSeq([i \in 1..n |->
                          1 + Cardinality({j \in 1..n : Precedes(j, i)})], 1, n)
    IN  [p \in 1..n |-> s[CHOOSE i \in 1..n : place[i] = p]]

\* Series.mean(): NaN on an empty series
mean(xs) ==
    IF Len(xs) = 0 THEN NaN ELSE RatDiv(SumRats(xs), FromInt(Len(xs)))

\* mutant of var: the population variance (ddof = 0)
var_population(xs) ==
    IF Len(xs) < 2 THEN NaN
    ELSE LET mu == mean(xs)
             sq == AsSeq([i \in 1..Len(xs) |->
                      LET dev == RatSub(xs[i], mu) IN RatMul(dev, dev)])
         IN  RatDiv(SumRats(sq), FromInt(Len(xs)))

\* Series.var(ddof = 1): NaN on fewer than two values
var(xs) ==
    IF Len(xs) < 2 THEN NaN
    ELSE LET mu == mean(xs)
             sq == AsSeq([i \in 1..Len(xs) |->
                      LET dev == RatSub(xs[i], mu) IN RatMul(dev, dev)])
         IN  RatDiv(SumRats(sq), FromInt(Len(xs) - 1))

\* Series.std(): the sample standard deviation
std(xs) == Sqrt(var(xs))

RECURSIVE SetToSortedSeq(_)
SetToSortedSeq(S) ==
    IF S = {} THEN <<>>
    ELSE LET lo == CHOOSE x \in S : \A y \in S : x <= y
         IN  <<lo>> \o SetToSortedSeq(S \ {lo})

Column(rows, c) == AsSeq([i \in 1..Len(rows) |-> rows[i][c]])

(***************************************************************************)
(* The caller's table.  dtype is the dtype of its 'date' column; a string  *)
(* date is the tuple of its zero-padded fields in the order they are       *)
(* written, so that comparing strings is comparing these tuples.           *)
(***************************************************************************)
Dtypes == {"datetime64", "str_iso", "str_us"}

\* the raw 'date' value of timestamp ts in a column of the given dtype
RawDate(ts, dtype) ==
    IF dtype = "str_us" THEN <<ts[2], ts[3], ts[1]>>   \* 'MM/DD/YYYY'
    ELSE ts                                  \* datetime64, or 'YYYY-MM-DD'

is_datetime64_any_dtype(dtype) == dtype = "datetime64"

\* pd.to_datetime on one raw value
to_datetime(raw, dtype) ==
    IF dtype = "str_us" THEN <<raw[3], raw[1], raw[2]>> ELSE raw

\* how a sort places equal keys: numpy's default kind is not stable by contract
TieOrders == {"kept", "reversed"}

\* DataFrame.sort_values(c): ascending by the raw values of column c
sort_values_by(rows, c, tie) ==
    SortBy(rows, [j, i \in 1..Len(rows) |-> TupleLt(rows[j][c], rows[i][c])],
           tie)

sort_values(frame, tie) ==
    [dtype |-> frame.dtype, rows |-> sort_values_by(frame.rows, "date", tie)]

\* SeasonalTrendDetector._prepare_data
_prepare_data(frame) ==
    LET Parsed(raw) == IF ~is_datetime64_any_dtype(frame.dtype)
                       THEN to_datetime(raw, frame.dtype)
                       ELSE raw
    IN  [i \in 1..Len(frame.rows) |->
           LET ts == Parsed(frame.rows[i].date)
           IN  [date |-> ts,
                enrolments |-> frame.rows[i].enrolments,
                month |-> ts[2],
                quarter |-> quarter(ts),
                year |-> ts[1],
                week |-> isocalendar_week(ts),
                day_of_year |-> dayofyear(ts)]]

\* SeasonalTrendDetector.__init__: the caller's frame and self.data afterwards
__init__(frame, tie) ==
    LET copy == frame
        sorted == sort_values(copy, tie)
    IN  [caller |-> frame, self |-> _prepare_data(sorted)]

(***************************************************************************)
(* Group-by.                                                               *)
(***************************************************************************)
\* groupby(c)['enrolments'].mean(): one entry per value of column c that
\* occurs in the frame, ascending by that value
groupby_mean(self, c) ==
    LET keys == SetToSortedSeq({self[i][c] : i \in 1..Len(self)})
    IN  AsSeq([k \in 1..Len(keys) |->
           LET grp == SelectSeq(self, LAMBDA r : r[c] = keys[k])
           IN  [key |-> keys[k],
                value |-> RatDiv(FromInt(SumInts(Column(grp, "enrolments"))),
                                 FromInt(Len(grp)))]])

MonthIndex(ts) == ts[1] * 12 + (ts[2] - 1)

\* the label of a month-end ('ME') bin
MonthEnd(idx) ==
    LET y == idx \div 12
        m == (idx % 12) + 1
    IN  <<y, m, DaysInMonth(y, m)>>

\* mutant of groupby_month_end_sum: only the months that hold a row
groupby_month_end_sum_present(self) ==
    LET idxs == SetToSortedSeq({MonthIndex(self[i].date) : i \in 1..Len(self)})
    IN  AsSeq([k \in 1..Len(idxs) |->
           LET bin == SelectSeq(self, LAMBDA r : MonthIndex(r.date) = idxs[k])
           IN  [date |-> MonthEnd(idxs[k]),
                enrolments |-> SumInts(Column(bin, "enrolments"))]])

\* groupby(pd.Grouper(key='date', freq='ME'))['enrolments'].sum(): the bins
\* are the consecutive calendar months from the month of the earliest
\* timestamp to the month of the latest one; a bin without rows sums to 0
groupby_month_end_sum(self) ==
    IF Len(self) = 0 THEN <<>>
    ELSE LET idxs == {MonthIndex(self[i].date) : i \in 1..Len(self)}
             lo == CHOOSE x \in idxs : \A y \in idxs : x <= y
             hi == CHOOSE x \in idxs : \A y \in idxs : y <= x
         IN  AsSeq([k \in 1..(hi - lo + 1) |->
                LET bin == SelectSeq(self,
                               LAMBDA r : MonthIndex(r.date) = lo + k - 1)
                IN  [date |-> MonthEnd(lo + k - 1),
                     enrolments |-> SumInts(Column(bin, "enrolments"))]])

\* mutant of sort_values_descending: ascending order
sort_values_ascending(items, tie) ==
    SortBy(items,
           [j, i \in 1..Len(items) |-> RatLt(items[j].value, items[i].value)],
           tie)

\* Series.sort_values(ascending=False) on the entries of a group-by result
sort_values_descending(items, tie) ==
    SortBy(items,
           [j, i \in 1..Len(items) |-> RatLt(items[i].value, items[j].value)],
           tie)

\* Python's min(a, b): b if b < a, else a
py_min(a, b) == IF FloatLt(b, a) THEN b ELSE a

One == ToFloat(FromInt(1))

\* the external statsmodels.tsa.seasonal.seasonal_decompose, as a recorded call
seasonal_decompose(series, period) ==
    [fn |-> "seasonal_decompose", n |-> Len(series), period |-> period]

(***************************************************************************)
(* The queries.  Each returns the value handed to the caller and self.data *)
(* as the call leaves it.                                                  *)
(***************************************************************************)
\* mutant of detect_seasonal_pattern: the guard refuses exactly two cycles
detect_seasonal_pattern_le(self, period) ==
    LET monthly_data == groupby_month_end_sum(self)
    IN  IF Len(monthly_data) <= 2 * period
        THEN [self |-> self,
              calls |-> <<>>,
              value |-> [error |-> "Insufficient data for seasonal decomposition",
                         required_periods |-> 2 * period,
                         available_periods |-> Len(monthly_data)]]
        ELSE [self |-> self,
              calls |-> <<seasonal_decompose(monthly_data, period)>>,
              value |-> [observed |-> monthly_data]]

detect_seasonal_pattern(self, period) ==
    LET monthly_data == groupby_month_end_sum(self)
    IN  IF Len(monthly_data) < 2 * period
        THEN [self |-> self,
              calls |-> <<>>,
              value |-> [error |-> "Insufficient data for seasonal decomposition",
                         required_periods |-> 2 * period,
                         available_periods |-> Len(monthly_data)]]
        ELSE [self |-> self,
              calls |-> <<seasonal_decompose(monthly_data, period)>>,
              value |-> [observed |-> monthly_data]]

identify_peak_months(self, tie) ==
    LET monthly_avg == groupby_mean(self, "month")
    IN  [self |-> self, value |-> sort_values_descending(monthly_avg, tie)]

identify_peak_quarters(self, tie) ==
    LET quarterly_avg == groupby_mean(self, "quarter")
    IN  [self |-> self, value |-> sort_values_descending(quarterly_avg, tie)]

calculate_seasonality_strength(self) ==
    LET monthly_avg == Column(groupby_mean(self, "month"), "value")
        cv == FloatDiv(std(monthly_avg), ToFloat(mean(monthly_avg)))
    IN  [self |-> self, value |-> py_min(cv, One)]

\* mutant of IsAnomaly: ~(abs(z) <= threshold), which a NaN z-score passes
IsAnomaly_not_le(z_score, threshold) ==
    ~(FloatLt(FloatAbs(z_score), threshold) \/ FloatAbs(z_score) = threshold)

\* monthly[np.abs(monthly['z_score']) > threshold]
IsAnomaly(z_score, threshold) == FloatGt(FloatAbs(z_score), threshold)

\* the list comprehension over anomalies.iterrows()
AnomalyRecords(anomalies) ==
    AsSeq([i \in 1..Len(anomalies) |->
             [date |-> <<anomalies[i].date[1], anomalies[i].date[2]>>,
              enrolments |-> anomalies[i].enrolments,
              z_score |-> anomalies[i].z_score,
              type |-> IF FloatGt(anomalies[i].z_score, ToFloat(FromInt(0)))
                       THEN "spike" ELSE "drop"]])

\* the monthly frame with its z-scores
monthly_z_score(self) ==
    LET monthly == groupby_month_end_sum(self)
        totals == AsSeq([i \in 1..Len(monthly) |-> FromInt(monthly[i].enrolments)])
        mean_enrolments == mean(totals)
        std_enrolments == std(totals)
    IN  AsSeq([i \in 1..Len(monthly) |->
                 [date |-> monthly[i].date,
                  enrolments |-> monthly[i].enrolments,
                  z_score |-> FloatDiv(
                      ToFloat(RatSub(totals[i], mean_enrolments)),
                      std_enrolments)]])

\* mutant of detect_anomalous_periods: the monthly frame is stored back
\* into self.data
detect_anomalous_periods_inplace(self, threshold) ==
    LET monthly == monthly_z_score(self)
        anomalies == SelectSeq(monthly, LAMBDA row : IsAnomaly(row.z_score, threshold))
    IN  [self |-> _prepare_data([dtype |-> "datetime64", rows |-> monthly]),
         value |-> AnomalyRecords(anomalies)]

detect_anomalous_periods(self, threshold) ==
    LET monthly == monthly_z_score(self)
        anomalies == SelectSeq(monthly, LAMBDA row : IsAnomaly(row.z_score, threshold))
    IN  [self |-> self, value |-> AnomalyRecords(anomalies)]

get_seasonal_summary(self, tie) ==
    LET peak_months == identify_peak_months(self, tie)
        peak_quarters == identify_peak_quarters(peak_months.self, tie)
        seasonality_strength == calculate_seasonality_strength(peak_quarters.self)
        anomalies == detect_anomalous_periods(seasonality_strength.self,
                         ToFloat(Rat(DefaultThreshold[1], DefaultThreshold[2])))
        after == anomalies.self
        monthly == groupby_month_end_sum(after)
    IN  [self |-> after,
         value |-> [peak_months |-> peak_months.value,
                    peak_quarters |-> peak_quarters.value,
                    seasonality_strength |-> seasonality_strength.value,
                    anomalous_periods |-> anomalies.value,
                    total_enrolments |-> SumInts(Column(after, "enrolments")),
                    average_monthly_enrolments |->
                        mean(AsSeq([i \in 1..Len(monthly) |->
                                       FromInt(monthly[i].enrolments)]))]]

(***************************************************************************)
(* The state machine.                                                      *)
(***************************************************************************)
VARIABLES
    input,    \* the caller's table
    data,     \* self.data
    phase,    \* "new" before __init__ has run, "ready" after
    ret       \* the last call: its name, arguments and returned value

vars == <<input, data, phase, ret>>

SampleDates == {<<y, m, d>> : y \in Years, m \in SampleMonths, d \in SampleDays}

Table(dtype, ts, counts) ==
    [dtype |-> dtype,
     rows |-> [i \in 1..Len(ts) |->
                 [date |-> RawDate(ts[i], dtype), enrolments |-> counts[i]]]]

\* every table of at most MaxRows rows over the sample dates and counts
Tables ==
    UNION {{Table(dtype, ts, counts) :
               dtype \in Dtypes,
               ts \in [1..n -> SampleDates],
               counts \in [1..n -> Counts]} : n \in 0..MaxRows}

\* SpanDays consecutive days from the first of a month, each with the same count
DailyTable(dtype, start, c) ==
    Table(dtype, date_range(start, SpanDays), [i \in 1..SpanDays |-> c])

\* a finished call: its name, its arguments, the external calls it made and
\* the value it returned; no modelled call raises
Returned(op, args, calls, value) ==
    [op |-> op, args |-> args, calls |-> calls, outcome |-> "return",
     value |-> value]

NoCall == [op |-> "none", args |-> <<>>, calls |-> <<>>, outcome |-> "none",
           value |-> <<>>]

Init ==
    /\ input \in Tables
    /\ data = <<>>
    /\ phase = "new"
    /\ ret = NoCall

InitDaily ==
    /\ input \in {DailyTable(dtype, <<y, m, 1>>, c) :
                     dtype \in Dtypes, y \in Years,
                     m \in DailyStartMonths, c \in DailyCounts}
    /\ data = <<>>
    /\ phase = "new"
    /\ ret = NoCall

Construct ==
    /\ phase = "new"
    /\ \E tie \in TieOrders :
          LET r == __init__(input, tie)
          IN  /\ input' = r.caller
              /\ data' = r.self
    /\ phase' = "ready"
    /\ ret' = Returned("__init__", <<>>, <<>>, <<>>)

DetectSeasonalPattern ==
    /\ phase = "ready"
    /\ \E period \in Periods :
          LET r == detect_seasonal_pattern(data, period)
          IN  /\ data' = r.self
              /\ ret' = Returned("detect_seasonal_pattern", <<period>>, r.calls, r.value)
    /\ UNCHANGED <<input, phase>>

IdentifyPeakMonths ==
    /\ phase = "ready"
    /\ \E tie \in TieOrders :
          LET r == identify_peak_months(data, tie)
          IN  /\ data' = r.self
              /\ ret' = Returned("identify_peak_months", <<>>, <<>>, r.value)
    /\ UNCHANGED <<input, phase>>

IdentifyPeakQuarters ==
    /\ phase = "ready"
    /\ \E tie \in TieOrders :
          LET r == identify_peak_quarters(data, tie)
          IN  /\ data' = r.self
              /\ ret' = Returned("identify_peak_quarters", <<>>, <<>>, r.value)
    /\ UNCHANGED <<input, phase>>

CalculateSeasonalityStrength ==
    /\ phase = "ready"
    /\ LET r == calculate_seasonality_strength(data)
       IN  /\ data' = r.self
           /\ ret' = Returned("calculate_seasonality_strength", <<>>, <<>>, r.value)
    /\ UNCHANGED <<input, phase>>

DetectAnomalousPeriods ==
    /\ phase = "ready"
    /\ \E t \in Thresholds :
          LET r == detect_anomalous_periods(data, ToFloat(Rat(t[1], t[2])))
          IN  /\ data' = r.self
              /\ ret' = Returned("detect_anomalous_periods", <<t>>, <<>>, r.value)
    /\ UNCHANGED <<input, phase>>

GetSeasonalSummary ==
    /\ phase = "ready"
    /\ \E tie \in TieOrders :
          LET r == get_seasonal_summary(data, tie)
          IN  /\ data' = r.self
              /\ ret' = Returned("get_seasonal_summary", <<>>, <<>>, r.value)
    /\ UNCHANGED <<input, phase>>

Next ==
    \/ Construct
    \/ DetectSeasonalPattern
    \/ IdentifyPeakMonths
    \/ IdentifyPeakQuarters
    \/ CalculateSeasonalityStrength
    \/ DetectAnomalousPeriods
    \/ GetSeasonalSummary

Spec == Init /\ [][Next]_vars

SpecDaily == InitDaily /\ [][Next]_vars

(***************************************************************************)
(* Vocabulary of the properties, stated on self.data with integers only.   *)
(***************************************************************************)
Ready == phase = "ready"

RowMonth(r) == r.year * 12 + (r.month - 1)

\* the calendar months that hold at least one record
MonthsWithData == {RowMonth(data[i]) : i \in 1..Len(data)}

FirstMonth == CHOOSE x \in MonthsWithData : \A y \in MonthsWithData : x <= y

LastMonth == CHOOSE x \in MonthsWithData : \A y \in MonthsWithData : y <= x

\* the calendar months from the earliest to the latest record, gaps included
MonthsSpanned == IF data = <<>> THEN {} ELSE FirstMonth..LastMonth

\* the sum of enrolments of the records selected by Keep
SumWhere(Keep(_)) ==
    LET f[k \in 0..Len(data)] ==
            IF k = 0 THEN 0
            ELSE f[k - 1] + (IF Keep(data[k]) THEN data[k].enrolments ELSE 0)
    IN  f[Len(data)]

CountWhere(Keep(_)) == Cardinality({i \in 1..Len(data) : Keep(data[i])})

MonthTotal(idx) == SumWhere(LAMBDA r : RowMonth(r) = idx)

GrandTotal == SumWhere(LAMBDA r : TRUE)

\* <<year, month>> of a month index, the '%Y-%m' of its bucket
YearMonth(idx) == <<idx \div 12, (idx % 12) + 1>>

\* N * (x - mean) for the total x of month idx among the totals of Months
Deviation(Months, idx) ==
    Cardinality(Months) * MonthTotal(idx) - GrandTotal

\* N^2 times the sum of squared deviations from the mean
SumSqDev(Months) ==
    LET S == SetToSortedSeq(Months)
        f[k \in 0..Len(S)] ==
            IF k = 0 THEN 0
            ELSE f[k - 1] + Deviation(Months, S[k]) * Deviation(Months, S[k])
    IN  f[Len(S)]

\* abs((x - mean) / sampleStd) > t for the total x of month idx, with the
\* sample standard deviation (dividing by N - 1) of the totals of Months;
\* an undefined z-score (N < 2, or a zero deviation) exceeds nothing
ExceedsThreshold(Months, idx, t) ==
    LET N == Cardinality(Months)
        dev == Deviation(Months, idx)
    IN  /\ N >= 2
        /\ SumSqDev(Months) > 0
        /\ \/ t[1] < 0
           \/ dev * dev * (N - 1) * t[2] * t[2] > t[1] * t[1] * SumSqDev(Months)

IsZero(x) == x.sgn = 0 /\ x.sq = FromInt(0)

\* 0 <= x <= 1 for a Float x
InUnitInterval(x) ==
    /\ ~FloatIsNaN(x)
    /\ x.sgn >= 0
    /\ IsFinite(x.sq)
    /\ x.sq.n <= x.sq.d

SeqToSet(s) == {s[i] : i \in 1..Len(s)}

(***************************************************************************)
(* C1.                                                                     *)
(***************************************************************************)
\* the entries of a ranking are in descending order of their values
Descending(entries) ==
    \A i, j \in 1..Len(entries) :
        i < j => entries[i].value.n * entries[j].value.d
                     >= entries[j].value.n * entries[i].value.d

\* each entry's value is the arithmetic mean of the counts of all records
\* with the entry's month number, whatever their year
ValuesAreMonthMeans(entries) ==
    \A i \in 1..Len(entries) :
        LET k == entries[i].key
        IN  /\ entries[i].value.d > 0
            /\ entries[i].value.n * CountWhere(LAMBDA r : r.month = k)
                 = entries[i].value.d * SumWhere(LAMBDA r : r.month = k)

\* C1 as stated: for every non-empty input identify_peak_months returns
\* exactly 12 entries, with keys 1..12 each once, in descending order of
\* the mean count, each value being the mean of that month's counts.
C1_Original ==
    (ret.op = "identify_peak_months" /\ data # <<>>) =>
        /\ Len(ret.value) = 12
        /\ {ret.value[i].key : i \in 1..Len(ret.value)} = 1..12
        /\ Descending(ret.value)
        /\ ValuesAreMonthMeans(ret.value)

\* C1 as amended: identify_peak_months returns one entry for each month
\* number that occurs in the input and none for the others (so 12 entries
\* with keys 1..12 exactly when every month number occurs), each key once,
\* in descending order of the mean count, each value being the mean of the
\* counts of all records with that month number across all years.
C1_PeakMonths ==
    ret.op = "identify_peak_months" =>
        /\ {ret.value[i].key : i \in 1..Len(ret.value)}
             = {data[i].month : i \in 1..Len(data)}
        /\ Len(ret.value) = Cardinality({data[i].month : i \in 1..Len(data)})
        /\ \A i \in 1..Len(ret.value) : ret.value[i].key \in 1..12
        /\ (Len(ret.value) = 12 <=> {data[i].month : i \in 1..Len(data)} = 1..12)
        /\ Descending(ret.value)
        /\ ValuesAreMonthMeans(ret.value)

\* a ranking of two months in which the later month number comes first,
\* having the higher mean
C1_Witness ==
    /\ ret.op = "identify_peak_months"
    /\ Len(ret.value) = 2
    /\ ret.value[1].key > ret.value[2].key
    /\ ret.value[1].value # ret.value[2].value

(***************************************************************************)
(* C2.                                                                     *)
(***************************************************************************)
\* the per-month means have a nonzero mean: some record has a nonzero count
NonzeroMean == \E i \in 1..Len(data) : data[i].enrolments # 0

\* C2 as stated: for every input whose per-month means have a nonzero mean,
\* those with a single month number included, calculate_seasonality_strength
\* returns a defined value v with 0 <= v <= 1.
C2_Original ==
    (ret.op = "calculate_seasonality_strength" /\ NonzeroMean) =>
        InUnitInterval(ret.value)

(***************************************************************************)
(* C3.                                                                     *)
(***************************************************************************)
\* C3: with n the number of monthly buckets of the aggregation (the months
\* spanned by the data) and p the period, detect_seasonal_pattern returns
\* the insufficient-data result with required_periods = 2p and
\* available_periods = n without invoking the decomposition when n < 2p,
\* and invokes the decomposition exactly once, on the n buckets with period
\* p, when n >= 2p.
C3_InsufficientData ==
    ret.op = "detect_seasonal_pattern" =>
        LET p == ret.args[1]
            n == Cardinality(MonthsSpanned)
        IN  IF n < 2 * p
            THEN /\ ret.calls = <<>>
                 /\ ret.value =
                      [error |-> "Insufficient data for seasonal decomposition",
                       required_periods |-> 2 * p,
                       available_periods |-> n]
            ELSE /\ ret.calls = <<[fn |-> "seasonal_decompose", n |-> n,
                                   period |-> p]>>
                 /\ "error" \notin DOMAIN ret.value

\* the insufficient-data result at the default period, on data whose
\* buckets outnumber its records
C3_Witness ==
    /\ ret.op = "detect_seasonal_pattern"
    /\ ret.args[1] = DefaultPeriod
    /\ "error" \in DOMAIN ret.value
    /\ ret.value.available_periods > Len(data)
    /\ ret.calls = <<>>

(***************************************************************************)
(* C4.                                                                     *)
(***************************************************************************)
\* C4: detect_anomalous_periods returns exactly one record for each monthly
\* bucket with abs(z) > threshold (strictly) and none for any other bucket,
\* z = (total - mean) / sample std (dividing by N - 1) over the totals of
\* the buckets; the records are in ascending chronological order; a record
\* is a 'spike' when its z-score is positive and a 'drop' otherwise, and it
\* carries the bucket's total.
C4_Anomalies ==
    ret.op = "detect_anomalous_periods" =>
        LET t == ret.args[1]
            recs == ret.value
        IN  /\ \A idx \in MonthsSpanned :
                  Cardinality({i \in 1..Len(recs) : recs[i].date = YearMonth(idx)})
                    = IF ExceedsThreshold(MonthsSpanned, idx, t) THEN 1 ELSE 0
            /\ \A i \in 1..Len(recs) :
                  \E idx \in MonthsSpanned :
                     /\ recs[i].date = YearMonth(idx)
                     /\ recs[i].enrolments = MonthTotal(idx)
                     /\ recs[i].type = IF Deviation(MonthsSpanned, idx) > 0
                                       THEN "spike" ELSE "drop"
            /\ \A i, j \in 1..Len(recs) :
                  i < j => (\/ recs[i].date[1] < recs[j].date[1]
                            \/ /\ recs[i].date[1] = recs[j].date[1]
                               /\ recs[i].date[2] < recs[j].date[2])

\* at the default threshold a spike is reported and another bucket is not
C4_Witness ==
    /\ ret.op = "detect_anomalous_periods"
    /\ ret.args[1] = DefaultThreshold
    /\ Len(ret.value) >= 1
    /\ ret.value[1].type = "spike"
    /\ Len(ret.value) < Cardinality(MonthsSpanned)

(***************************************************************************)
(* C5.                                                                     *)
(***************************************************************************)
\* every record has the same count
ConstantCounts ==
    \A i, j \in 1..Len(data) : data[i].enrolments = data[j].enrolments

\* C5 as stated: for a constant-count daily series
\* calculate_seasonality_strength returns 0 and detect_anomalous_periods
\* with the default threshold returns an empty sequence.
C5_Original ==
    (Ready /\ ConstantCounts /\ Len(data) = SpanDays) =>
        ( /\ (ret.op = "calculate_seasonality_strength" => IsZero(ret.value))
          /\ ((ret.op = "detect_anomalous_periods"
                 /\ ret.args[1] = DefaultThreshold) => ret.value = <<>>) )

(***************************************************************************)
(* C6.                                                                     *)
(***************************************************************************)
\* C6 as stated: the monthly buckets are exactly the calendar months that
\* contain a record, so a month without records is never reported as an
\* anomaly and contributes nothing to the average monthly figure.
C6_Original ==
    /\ (ret.op = "detect_anomalous_periods" =>
          \A i \in 1..Len(ret.value) :
             \E idx \in MonthsWithData : ret.value[i].date = YearMonth(idx))
    /\ ((ret.op = "get_seasonal_summary" /\ data # <<>>) =>
          ret.value.average_monthly_enrolments.n * Cardinality(MonthsWithData)
            = ret.value.average_monthly_enrolments.d * GrandTotal)

\* C6 as amended: gaps are filled: the monthly buckets are all the calendar
\* months from the month of the earliest to the month of the latest
\* timestamp; a month in that range that holds no record is a bucket with
\* total 0, which enters the mean and the standard deviation (the average
\* monthly figure is the grand total divided by the number of months
\* spanned, the z-scores are those over the spanned months) and is reported
\* as a 'drop' with 0 enrolments when its z-score exceeds the threshold.
C6_GapsFilled ==
    /\ (ret.op = "detect_anomalous_periods" =>
          /\ \A i \in 1..Len(ret.value) :
                \E idx \in MonthsSpanned :
                   /\ ret.value[i].date = YearMonth(idx)
                   /\ (idx \notin MonthsWithData =>
                         (/\ ret.value[i].enrolments = 0
                          /\ ret.value[i].type = "drop"))
          /\ \A idx \in MonthsSpanned \ MonthsWithData :
                ExceedsThreshold(MonthsSpanned, idx, ret.args[1])
                   <=> (\E i \in 1..Len(ret.value) :
                           ret.value[i].date = YearMonth(idx)))
    /\ ((ret.op = "get_seasonal_summary" /\ data # <<>>) =>
          (/\ ret.value.average_monthly_enrolments.d > 0
           /\ ret.value.average_monthly_enrolments.n * Cardinality(MonthsSpanned)
                = ret.value.average_monthly_enrolments.d * GrandTotal))

\* a month without records is reported as a drop
C6_Witness ==
    /\ ret.op = "detect_anomalous_periods"
    /\ \E i \in 1..Len(ret.value) :
          /\ \A k \in 1..Len(data) :
                <<data[k].year, data[k].month>> # ret.value[i].date
          /\ ret.value[i].type = "drop"

(***************************************************************************)
(* C7.                                                                     *)
(***************************************************************************)
\* no z-score is defined: no records, fewer than two buckets, or buckets
\* that all have the same total
Degenerate ==
    \/ data = <<>>
    \/ Cardinality(MonthsSpanned) < 2
    \/ \A a, b \in MonthsSpanned : MonthTotal(a) = MonthTotal(b)

\* C7: in every degenerate case detect_anomalous_periods returns (it does
\* not raise) the empty sequence, whatever the threshold.
C7_Degenerate ==
    (ret.op = "detect_anomalous_periods" /\ Degenerate) =>
        (ret.outcome = "return" /\ ret.value = <<>>)

\* two or more buckets with the same nonzero total, at threshold 0
C7_Witness ==
    /\ ret.op = "detect_anomalous_periods"
    /\ ret.args[1][1] <= 0
    /\ Cardinality(MonthsSpanned) >= 2
    /\ \A a, b \in MonthsSpanned : MonthTotal(a) = MonthTotal(b)
    /\ GrandTotal > 0
    /\ ret.value = <<>>

(***************************************************************************)
(* C8.                                                                     *)
(***************************************************************************)
\* C8 as stated: get_seasonal_summary returns total_enrolments = the sum of
\* all counts and average_monthly_enrolments = the mean of the monthly
\* totals; with zero monthly buckets it fails with an error and never
\* returns a summary whose average or seasonality strength is NaN.
C8_Original ==
    ret.op = "get_seasonal_summary" =>
        IF MonthsSpanned = {}
        THEN ret.outcome = "raise"
        ELSE /\ ret.outcome = "return"
             /\ ret.value.total_enrolments = GrandTotal
             /\ ret.value.average_monthly_enrolments.d > 0
             /\ ret.value.average_monthly_enrolments.n * Cardinality(MonthsSpanned)
                  = ret.value.average_monthly_enrolments.d * GrandTotal

(***************************************************************************)
(* C9.                                                                     *)
(***************************************************************************)
\* C9 as stated: after construction the stored records are in ascending
\* order of their parsed timestamp.
C9_Original ==
    Ready => (\A i, j \in 1..Len(data) :
                 i < j => TupleLe(data[i].date, data[j].date))

(***************************************************************************)
(* C10.                                                                    *)
(***************************************************************************)
\* C10: no step modifies the caller's table, and no call on a constructed
\* detector modifies its stored records.
C10_Frame ==
    [][/\ input' = input
       /\ (Ready => data' = data)]_vars

\* a query has returned on a detector built from a table whose rows were
\* not in chronological order
C10_Witness ==
    /\ ret.op = "get_seasonal_summary"
    /\ Len(data) = 2
    /\ to_datetime(input.rows[1].date, input.dtype) = data[2].date
    /\ data[1].date # data[2].date

=============================================================================
